---- MODULE Spec2Model ----
(***************************************************************************)
(* State-machine model of rest_api_loader.py: DataLoader construction,     *)
(* run_full_load / run_incremental_load, _get_api_config, the streaming     *)
(* generator fetch_api_data and load_data_for_resource.                     *)
(*                                                                         *)
(* Python dicts are functions whose DOMAIN is the set of keys present, so   *)
(* d["k"] on a missing key (KeyError) and d.get("k", default) are told      *)
(* apart.  A formatted timestamp string is the record [date, time]: the     *)
(* date triple printed by %Y-%m-%d and the literal text that follows it     *)
(* ("" when the format stops after the day).                                *)
(***************************************************************************)
EXTENDS Integers, Sequences, FiniteSets, TLC

(* ------------------------------ bounds --------------------------------- *)

\* Longest catalog (number of entries of config['resources']).
MaxResources == 2

\* Longest response body, in lines handed out by iter_lines().
MaxLines == 3

(* --------------------------- calendar (datetime) ----------------------- *)

IsLeap(y) == (y % 4 = 0) /\ ((y % 100 # 0) \/ (y % 400 = 0))

DaysInMonth(y, m) ==
    IF m = 2 THEN (IF IsLeap(y) THEN 29 ELSE 28)
    ELSE IF m \in {4, 6, 9, 11} THEN 30 ELSE 31

DaysBeforeYear(y) ==
    (y - 1) * 365 + ((y - 1) \div 4) - ((y - 1) \div 100) + ((y - 1) \div 400)

RECURSIVE DaysBeforeMonth(_, _)
DaysBeforeMonth(y, m) ==
    IF m = 1 THEN 0 ELSE DaysBeforeMonth(y, m - 1) + DaysInMonth(y, m - 1)

\* date.toordinal()
ToOrdinal(y, m, d) == DaysBeforeYear(y) + DaysBeforeMonth(y, m) + d

\* Years the ordinal arithmetic may land in.
CalYears == 2023..2024

\* date.fromordinal(n), as the triple <<year, month, day>>
FromOrdinal(n) ==
    LET y == CHOOSE yy \in CalYears :
                 DaysBeforeYear(yy) < n /\ n <= DaysBeforeYear(yy + 1)
        r == n - DaysBeforeYear(y)
        m == CHOOSE mm \in 1..12 :
                 DaysBeforeMonth(y, mm) < r
                 /\ r <= DaysBeforeMonth(y, mm) + DaysInMonth(y, mm)
    IN  <<y, m, r - DaysBeforeMonth(y, m)>>

\* A datetime value: [year, month, day, hour, minute, second]
DateTime(y, m, d, hh, mi, ss) ==
    [year |-> y, month |-> m, day |-> d, hour |-> hh, minute |-> mi, second |-> ss]

\* dt - timedelta(days=1): one day earlier, same time of day
MinusOneDay(dt) ==
    LET p == FromOrdinal(ToOrdinal(dt.year, dt.month, dt.day) - 1)
    IN  [dt EXCEPT !.year = p[1], !.month = p[2], !.day = p[3]]

\* dt.strftime('%Y-%m-%d' + literal): the printed date and the literal tail
Strftime(dt, literal) == [date |-> <<dt.year, dt.month, dt.day>>, time |-> literal]

(* ------------------------------ inputs --------------------------------- *)

\* d.get(k, default)
Get(d, k, default) == IF k \in DOMAIN d THEN d[k] ELSE default

\* The "params" objects a catalog entry may carry ({} is the empty function).
ParamsDicts ==
    { <<>>,
      [always_full |-> TRUE],
      [always_full |-> FALSE, where |-> "status='open'"] }

\* Catalog entries named n: with a params object, or without one.
Entries(n) ==
    { [name |-> n] } \cup { [name |-> n, params |-> p] : p \in ParamsDicts }

\* Catalogs of k entries; names are unique (entry i is named i).
RECURSIVE Catalogs(_)
Catalogs(k) ==
    IF k = 0 THEN { <<>> }
    ELSE { Append(c, e) : c \in Catalogs(k - 1), e \in Entries(k) }

AllCatalogs == UNION { Catalogs(k) : k \in 0..MaxResources }

\* What the file at config_path can be: unreadable, not JSON, or a JSON object
\* with or without the "resources" key.
Sources ==
    { [kind |-> "unreadable"], [kind |-> "malformed"],
      [kind |-> "json", value |-> <<>>] }
    \cup { [kind |-> "json", value |-> [resources |-> c]] : c \in AllCatalogs }

Modes == { "full", "incremental" }

\* HTTP statuses the API may answer with.
Statuses == { 200, 206, 404, 500 }

\* What a line of the body can be.
LineKinds == { "empty", "json", "garbage" }

\* What datetime.now() may return to a run: mid-month, the day after a leap
\* day, and the first day of a year.
RunInstants ==
    { DateTime(2024, 3, 15, 8, 0, 0),
      DateTime(2024, 3, 1, 0, 0, 0),
      DateTime(2024, 1, 1, 23, 59, 59) }

(* ------------------------------- state --------------------------------- *)

VARIABLES
    pc,          \* position of the program
    source,      \* the file at config_path
    config,      \* self.config
    mode,        \* sys.argv[1]
    now,         \* datetime.now() read by the run
    args,        \* (date_from, date_to, load_type) the run passes per resource
    idx,         \* number of catalog entries the for loop has taken
    outcomes,    \* per resource: the "Load successful" / "Failed to load" log line
    requests,    \* HTTP GETs issued: resource name, effective load type, params
    sinkCalls,   \* keyword arguments of every pipeline.run call
    open,        \* resources whose HTTP connection is open
    status,      \* status code of the current / last response (0: none yet)
    body,        \* lines iter_lines() has handed out from that response
    yielded,     \* records fetch_api_data has yielded from that response
    ending,      \* how the current / last fetch ended ("none": still running)
    error        \* exception that left the program ("none": no exception)

vars == <<pc, source, config, mode, now, args, idx, outcomes, requests,
          sinkCalls, open, status, body, yielded, ending, error>>

NoConfig == [kind |-> "unset"]
NoArgs == [load_type |-> "unset"]

Init ==
    /\ pc = "new"
    /\ source \in Sources
    /\ mode \in Modes
    /\ now \in RunInstants
    /\ config = NoConfig
    /\ args = NoArgs
    /\ idx = 0
    /\ outcomes = <<>>
    /\ requests = <<>>
    /\ sinkCalls = <<>>
    /\ open = {}
    /\ status = 0
    /\ body = <<>>
    /\ yielded = <<>>
    /\ ending = "none"
    /\ error = "none"

(* ------------------------ DataLoader.__init__ -------------------------- *)

\* _load_config: open() and json.load() either return the parsed value or raise.
LoadConfigRaises(src) == src.kind \in { "unreadable", "malformed" }

\* __init__ with a readable JSON file: self.config = the parsed value.
Construct ==
    /\ pc = "new"
    /\ ~LoadConfigRaises(source)
    /\ config' = [kind |-> "loaded", value |-> source.value]
    /\ pc' = "ready"
    /\ UNCHANGED <<source, mode, now, args, idx, outcomes, requests, sinkCalls,
                   open, status, body, yielded, ending, error>>

\* __init__ when _load_config logs and re-raises: no DataLoader exists.
ConstructRaises ==
    /\ pc = "new"
    /\ LoadConfigRaises(source)
    /\ pc' = "raised"
    /\ error' = "ConfigLoadError"
    /\ UNCHANGED <<source, config, mode, now, args, idx, outcomes, requests,
                   sinkCalls, open, status, body, yielded, ending>>

(* ------------------ run_full_load / run_incremental_load --------------- *)

HasResources == "resources" \in DOMAIN config.value

\* self.config['resources'] (read only where the key is present: its absence
\* is the KeyError of EnterRun)
Resources == IF HasResources THEN config.value.resources ELSE <<>>

\* run_full_load, lines 146-147 and the arguments of line 150
FullArgs(t) ==
    [date_from |-> [date |-> <<1970, 1, 1>>, time |-> "T00:00:00Z"],
     date_to   |-> Strftime(MinusOneDay(t), "T23:59:59Z"),
     load_type |-> "full"]

\* run_incremental_load, lines 154-157 and the arguments of line 160
IncrementalArgs(t) ==
    [date_from |-> Strftime(MinusOneDay(t), ""),
     date_to   |-> Strftime(MinusOneDay(t), ""),
     load_type |-> "incremental"]

\* A run that takes a missing "resources" key for an empty catalog.
EnterRun_EmptyDefault(a) ==
    /\ pc = "ready"
    /\ args' = a
    /\ pc' = "loop"
    /\ UNCHANGED <<source, config, mode, now, idx, outcomes, requests, sinkCalls,
                   open, status, body, yielded, ending, error>>

\* Entry of a run up to the head of its for loop: the dates are computed, then
\* self.config['resources'] is evaluated (KeyError when the key is missing).
EnterRun(a) ==
    /\ pc = "ready"
    /\ IF HasResources
       THEN /\ args' = a
            /\ pc' = "loop"
            /\ error' = error
       ELSE /\ args' = args
            /\ pc' = "raised"
            /\ error' = "KeyError:resources"
    /\ UNCHANGED <<source, config, mode, now, idx, outcomes, requests, sinkCalls,
                   open, status, body, yielded, ending>>

RunFullLoad == mode = "full" /\ EnterRun(FullArgs(now))

RunIncrementalLoad == mode = "incremental" /\ EnterRun(IncrementalArgs(now))

\* The for loop is exhausted: the run returns.
RunReturns ==
    /\ pc = "loop"
    /\ idx = Len(Resources)
    /\ pc' = "done"
    /\ UNCHANGED <<source, config, mode, now, args, idx, outcomes, requests,
                   sinkCalls, open, status, body, yielded, ending, error>>

(* --------------------------- _get_api_config --------------------------- *)

\* Line 65 and line 71 index resource["params"]: KeyError without the key,
\* logged and re-raised by the except clause of lines 97-99.
GetApiConfigRaises(resource) == "params" \notin DOMAIN resource

\* The override left out.
EffectiveLoadType_NoOverride(resource, load_type) == load_type

\* load_type after the always_full override of lines 65-67
EffectiveLoadType(resource, load_type) ==
    IF Get(resource.params, "always_full", FALSE) THEN "full" ELSE load_type

\* The dictionary returned by lines 87-96 (headers left out), plus the value
\* the local load_type holds when it is built.
GetApiConfig(resource, date_from, date_to, load_type) ==
    LET lt == EffectiveLoadType(resource, load_type)
    IN  [load_type |-> lt,
         resource  |->
            [name |-> resource.name,
             endpoint |->
                [params |->
                    [where     |-> Get(resource.params, "where", "1=1"),
                     from_date |-> IF lt = "full"
                                   THEN [date |-> <<1970, 1, 1>>, time |-> ""]
                                   ELSE date_from,
                     to_date   |-> date_to]],
             write_disposition |-> "replace"]]

(* ---------------- load_data_for_resource / fetch_api_data -------------- *)

\* Line 127: the first catalog entry with that name (0: None).
Lookup(name) ==
    IF \E i \in 1..Len(Resources) : Resources[i].name = name
    THEN CHOOSE i \in 1..Len(Resources) :
             /\ Resources[i].name = name
             /\ \A j \in 1..(i - 1) : Resources[j].name # name
    ELSE 0

\* A status test that rejects server errors only.
StatusAccepted_ServerErrorsOnly(s) == s < 500

\* Line 116: the status test of fetch_api_data
StatusAccepted(s) == s = 200

\* Lines 137-139: the keyword arguments handed to pipeline.run
PipelineRunArgs(resource_name) == [data |-> resource_name, table_name |-> resource_name]

\* The name the for loop is at.
Current == Resources[idx + 1].name

Outcome(name, st) == [name |-> name, status |-> st]

\* The except clause of lines 141-142: log, return, and the loop goes on.
\* Nothing closes the response on this path.
Caught(name, how) ==
    /\ outcomes' = Append(outcomes, Outcome(name, "Failed"))
    /\ ending' = how
    /\ idx' = idx + 1
    /\ pc' = "loop"

\* One loop iteration up to the first suspension of the generator: lookup
\* (127-130), _get_api_config outside the try block (131-134), pipeline.run
\* (136-139) which starts fetch_api_data: requests.get answers with status s
\* (0: no response, the transport raised), then the status test.
LoadDataForResource ==
    /\ pc = "loop"
    /\ idx < Len(Resources)
    /\ LET name == Current
           i    == Lookup(name)
       IN  IF i = 0
           THEN /\ idx' = idx + 1
                /\ UNCHANGED <<pc, outcomes, requests, sinkCalls, open,
                               status, body, yielded, ending, error>>
           ELSE IF GetApiConfigRaises(Resources[i])
           THEN /\ pc' = "raised"
                /\ error' = "KeyError:params"
                /\ UNCHANGED <<idx, outcomes, requests, sinkCalls, open,
                               status, body, yielded, ending>>
           ELSE LET api == GetApiConfig(Resources[i], args.date_from,
                                        args.date_to, args.load_type)
                IN  /\ sinkCalls' = Append(sinkCalls, PipelineRunArgs(name))
                    /\ requests' = Append(requests,
                           [name |-> name, load_type |-> api.load_type,
                            params |-> api.resource.endpoint.params])
                    /\ body' = <<>>
                    /\ yielded' = <<>>
                    /\ error' = error
                    /\ \E s \in Statuses \cup {0} :
                          /\ status' = s
                          /\ IF s = 0
                             THEN /\ Caught(name, "connect_error")
                                  /\ open' = open
                             ELSE IF ~StatusAccepted(s)
                             THEN /\ Caught(name, "status_error")
                                  /\ open' = open \cup {name}
                             ELSE /\ pc' = "stream"
                                  /\ ending' = "none"
                                  /\ open' = open \cup {name}
                                  /\ UNCHANGED <<idx, outcomes>>
    /\ UNCHANGED <<source, config, mode, now, args>>

\* A decoder that drops what it cannot parse.
LineSkipped_AlsoGarbage(k) == k \in { "empty", "garbage" }

\* Line 120: "if line:" is false for the empty line only
LineSkipped(k) == k = "empty"

\* Lines 119-121, one turn of the for loop over iter_lines(): an empty line is
\* skipped, a JSON line is decoded and yielded (the record is named by its line
\* number), any other line makes json.loads raise.
ReadLine ==
    /\ pc = "stream"
    /\ Len(body) < MaxLines
    /\ \E k \in LineKinds :
          /\ body' = Append(body, k)
          /\ IF LineSkipped(k)
             THEN UNCHANGED <<yielded, pc, idx, outcomes, ending>>
             ELSE IF k = "json"
             THEN /\ yielded' = Append(yielded, Len(body) + 1)
                  /\ UNCHANGED <<pc, idx, outcomes, ending>>
             ELSE /\ yielded' = yielded
                  /\ Caught(Current, "decode_error")
    /\ UNCHANGED <<source, config, mode, now, args, requests, sinkCalls, open,
                   status, error>>

\* iter_lines() is exhausted: the transport releases the connection of a fully
\* read body, the generator returns, and pipeline.run either commits (line 140)
\* or raises from its normalize/load steps (line 142).
EndOfStream ==
    /\ pc = "stream"
    /\ open' = open \ {Current}
    /\ ending' = "eof"
    /\ \E committed \in BOOLEAN :
          outcomes' = Append(outcomes,
              Outcome(Current, IF committed THEN "Succeeded" ELSE "Failed"))
    /\ idx' = idx + 1
    /\ pc' = "loop"
    /\ UNCHANGED <<source, config, mode, now, args, requests, sinkCalls,
                   status, body, yielded, error>>

\* The consumer fails on a record it was handed and pipeline.run raises while
\* the generator is suspended at its yield; the generator is dropped, and
\* nothing in fetch_api_data closes the response.
SinkAborts ==
    /\ pc = "stream"
    /\ yielded # <<>>
    /\ body[Len(body)] = "json"
    /\ Caught(Current, "aborted")
    /\ UNCHANGED <<source, config, mode, now, args, requests, sinkCalls, open,
                   status, body, yielded, error>>

\* The interpreter finalises the responses nothing refers to any more (every
\* response but the one being streamed); when it does so is not fixed.
CollectGarbage ==
    /\ pc \in { "loop", "stream", "done" }
    /\ LET live == IF pc = "stream" THEN {Current} ELSE {}
       IN  /\ open \ live # {}
           /\ open' = open \cap live
    /\ UNCHANGED <<pc, source, config, mode, now, args, idx, outcomes, requests,
                   sinkCalls, status, body, yielded, ending, error>>

Next ==
    \/ Construct
    \/ ConstructRaises
    \/ RunFullLoad
    \/ RunIncrementalLoad
    \/ RunReturns
    \/ LoadDataForResource
    \/ ReadLine
    \/ EndOfStream
    \/ SinkAborts
    \/ CollectGarbage

Spec == Init /\ [][Next]_vars

(* ------------------------------ properties ----------------------------- *)

\* The run has entered its loop over the catalog.
InRun == args # NoArgs

\* The program has stopped: the run returned, or an exception left it.
Ended == pc \in { "done", "raised" }

LastOutcome == outcomes[Len(outcomes)]

\* The calendar day after <<y, m, d>>, by the rules of the calendar.
NextDay(d) ==
    IF d[3] < DaysInMonth(d[1], d[2]) THEN <<d[1], d[2], d[3] + 1>>
    ELSE IF d[2] < 12 THEN <<d[1], d[2] + 1, 1>>
    ELSE <<d[1] + 1, 1, 1>>

\* The calendar day before the reference instant.
DayBeforeNow ==
    CHOOSE d \in CalYears \X (1..12) \X (1..31) :
        d[3] <= DaysInMonth(d[1], d[2]) /\ NextDay(d) = <<now.year, now.month, now.day>>

\* The catalog entry a request was built from.
EntryOf(req) == Resources[Lookup(req.name)]

AlwaysFull(entry) ==
    "always_full" \in DOMAIN entry.params /\ entry.params.always_full = TRUE

\* The line numbers of the JSON lines of b, in order.
RECURSIVE JsonLines(_)
JsonLines(b) ==
    IF b = <<>> THEN <<>>
    ELSE LET front == JsonLines(SubSeq(b, 1, Len(b) - 1))
         IN  IF b[Len(b)] = "json" THEN Append(front, Len(b)) ELSE front

\* C1: an error raised at any step of a resource's sequence (window, request,
\* fetch, decode, sink) is caught inside the orchestrator and never leaves
\* run_full_load / run_incremental_load: once the run is iterating over the
\* catalog, no exception ends the program.
C1_NoErrorLeavesTheRun == InRun => pc # "raised"

\* C2: a run visits all catalog resources one at a time, in catalog order, each
\* exactly once; a failed fetch gives that resource the outcome Failed; when
\* the run has ended there is one outcome per catalog resource.
C2_AllVisitedInOrder ==
    InRun =>
        /\ Len(outcomes) = idx
        /\ \A i \in 1..Len(outcomes) : outcomes[i].name = Resources[i].name
        /\ ending \in { "status_error", "connect_error" } =>
               (outcomes # <<>> /\ LastOutcome.status = "Failed")
        /\ Ended => Len(outcomes) = Len(Resources)

\* C3: every load handed to the sink (pipeline.run) carries the write
\* disposition 'replace'.
C3_EveryLoadReplaces ==
    \A i \in 1..Len(sinkCalls) :
        /\ "write_disposition" \in DOMAIN sinkCalls[i]
        /\ sinkCalls[i].write_disposition = "replace"

\* C4: a resource whose always_full flag is true is requested in Full mode, with
\* from_date the epoch-start sentinel, in full and in incremental runs; a
\* resource whose flag is false or absent is requested in the mode of the run.
C4_EffectiveMode ==
    \A i \in 1..Len(requests) :
        LET req == requests[i]
        IN  IF AlwaysFull(EntryOf(req))
            THEN /\ req.load_type = "full"
                 /\ req.params.from_date.date = <<1970, 1, 1>>
            ELSE req.load_type = mode

\* C4: an incremental run has requested one resource in Full mode (its flag is
\* set) and another in Incremental mode.
C4_Witness ==
    /\ mode = "incremental"
    /\ \E i, j \in 1..Len(requests) :
          /\ AlwaysFull(EntryOf(requests[i])) /\ requests[i].load_type = "full"
          /\ ~AlwaysFull(EntryOf(requests[j])) /\ requests[j].load_type = "incremental"

\* C5: a request in Incremental mode has from_date = 00:00:00 of the calendar
\* day before the reference instant and to_date = 23:59:59 of that same day.
C5_IncrementalWindow ==
    \A i \in 1..Len(requests) :
        requests[i].load_type = "incremental" =>
            /\ requests[i].params.from_date.date = DayBeforeNow
            /\ requests[i].params.from_date.time \in { "", "T00:00:00", "T00:00:00Z" }
            /\ requests[i].params.to_date.date = DayBeforeNow
            /\ requests[i].params.to_date.time \in { "T23:59:59", "T23:59:59Z" }

\* C6: a request in Full mode, requested or forced by always_full, has from_date
\* = the epoch-start sentinel and to_date = 23:59:59 of the day before the
\* reference instant, in a full run and in an incremental run alike.
C6_FullWindow ==
    \A i \in 1..Len(requests) :
        requests[i].load_type = "full" =>
            /\ requests[i].params.from_date.date = <<1970, 1, 1>>
            /\ requests[i].params.to_date.date = DayBeforeNow
            /\ requests[i].params.to_date.time \in { "T23:59:59", "T23:59:59Z" }

\* C7: when the response status is not a 2xx status, fetch_api_data fails with
\* the status error having yielded no record and consumed no line of the body.
C7_StatusCheckedFirst ==
    (status # 0 /\ status \notin 200..299) =>
        /\ ending = "status_error"
        /\ pc # "stream"
        /\ body = <<>>
        /\ yielded = <<>>
        /\ outcomes # <<>> /\ LastOutcome.status = "Failed"

\* C7: a 404 response has been rejected by the status test.
C7_Witness ==
    /\ status = 404
    /\ ending = "status_error"
    /\ yielded = <<>>
    /\ LastOutcome.status = "Failed"

C9_ConnectionsReleased ==
    /\ Cardinality(open) <= 1
    /\ pc \in { "loop", "done", "raised" } => open = {}

\* The source is unreadable, not structured data, or lacks the resources list.
BadSource ==
    \/ source.kind \in { "unreadable", "malformed" }
    \/ "resources" \notin DOMAIN source.value

\* C10 as stated: constructing the DataLoader fails on every bad source, and
\* nothing is processed or requested afterwards.
C10_ConstructionFails ==
    BadSource =>
        /\ pc \in { "new", "raised" }
        /\ config = NoConfig
        /\ requests = <<>> /\ sinkCalls = <<>> /\ outcomes = <<>> /\ open = {}

\* C10 amended: constructing the DataLoader fails when the source is unreadable
\* or not structured data; a source that lacks the resources list is accepted
\* by the constructor and fails when the run starts; in all three cases the
\* program never enters its loop: no resource is processed, nothing is handed
\* to the sink and no HTTP request is made.
C10_BadSourceIsFatal ==
    BadSource =>
        /\ pc \in { "new", "ready", "raised" }
        /\ pc = "ready" => (source.kind = "json" /\ config # NoConfig)
        /\ source.kind # "json" => config = NoConfig
        /\ ~InRun
        /\ requests = <<>> /\ sinkCalls = <<>> /\ outcomes = <<>> /\ open = {}

\* C10: a catalog without the resources list was loaded by the constructor and
\* the run has failed on it before its loop.
C10_Witness ==
    /\ source.kind = "json"
    /\ BadSource
    /\ config # NoConfig
    /\ pc = "raised"
    /\ error = "KeyError:resources"

====
